---- MODULE Spec2Model ----
(***************************************************************************)
(* QueryStringManager of flask_combo_jsonapi/querystring.py.               *)
(*                                                                         *)
(* A Python str is a sequence of one-character strings, a Python dict is   *)
(* a sequence of [k, v] records in insertion order, and a raised exception *)
(* is an outcome record whose kind is the exception class.                 *)
(***************************************************************************)
EXTENDS Integers, Sequences, FiniteSets, TLC

VARIABLES
  qs,      \* self.qs: the raw querystring
  config,  \* current_app.config
  schema,  \* self.schema
  res,     \* the latest outcome of each accessor, None before its first call
  kv,      \* the latest call of _get_key_values: its argument and outcome
  again    \* the latest call was of an accessor that had been called before

vars == <<qs, config, schema, res, kv, again>>

(***************************************************************************)
(* Bounds of the checked inputs.                                           *)
(***************************************************************************)
MaxEntries == 2
MaxPageValLen == 2
MaxCfg == 1
MaxDepth == 2
MaxSortLen == 4
MaxIncludeLen == 5
MaxJsonLen == 3
MaxSuffixLen == 3

(***************************************************************************)
(* String literals.                                                        *)
(***************************************************************************)
S_filter == <<"f", "i", "l", "t", "e", "r">>
S_page == <<"p", "a", "g", "e">>
S_fields == <<"f", "i", "e", "l", "d", "s">>
S_sort == <<"s", "o", "r", "t">>
S_include == <<"i", "n", "c", "l", "u", "d", "e">>
S_q == <<"q">>
S_number == <<"n", "u", "m", "b", "e", "r">>
S_size == <<"s", "i", "z", "e">>
S_filterBr == S_filter \o <<"[">>

Bracket(name, sub) == name \o <<"[">> \o sub \o <<"]">>

MANAGED_KEYS == <<S_filter, S_page, S_fields, S_sort, S_include, S_q>>

DEFAULT_PAGE_SIZE == 30

(***************************************************************************)
(* Outcomes of a call: a returned value or a raised exception.             *)
(***************************************************************************)
None == [kind |-> "none", val |-> <<>>, param |-> <<>>, msg |-> ""]
Ok(v) == [kind |-> "ok", val |-> v, param |-> <<>>, msg |-> ""]
Raise(k, p, m) == [kind |-> k, val |-> <<>>, param |-> p, msg |-> m]

StrV(s) == [t |-> "str", v |-> s]
ListV(l) == [t |-> "list", v |-> l]
IntV(n) == [t |-> "int", v |-> n]

(***************************************************************************)
(* Python str methods.                                                     *)
(***************************************************************************)
startswith(s, p) == Len(p) <= Len(s) /\ SubSeq(s, 1, Len(p)) = p

startswith_any(s, ps) == \E i \in 1..Len(ps) : startswith(s, ps[i])

\* str.index(c) for a one-character c: the 0-based position of the first
\* occurrence, -1 standing for the ValueError it raises when there is none.
index(s, c) ==
  IF \E i \in 1..Len(s) : s[i] = c
  THEN (CHOOSE i \in 1..Len(s) : s[i] = c /\ \A j \in 1..(i - 1) : s[j] # c) - 1
  ELSE -1

\* s[a:b] for 0 <= a, 0 <= b <= len(s).
slice(s, a, b) == SubSeq(s, a + 1, b)

\* sub in s
contains(s, sub) ==
  \E i \in 1..(Len(s) - Len(sub) + 1) : SubSeq(s, i, i + Len(sub) - 1) = sub

RECURSIVE split_from(_, _, _, _)
split_from(s, sep, i, cur) ==
  IF i > Len(s) THEN <<cur>>
  ELSE IF i + Len(sep) - 1 <= Len(s) /\ SubSeq(s, i, i + Len(sep) - 1) = sep
       THEN <<cur>> \o split_from(s, sep, i + Len(sep), <<>>)
       ELSE split_from(s, sep, i + 1, Append(cur, s[i]))

\* s.split(sep) for a non-empty sep
split(s, sep) == split_from(s, sep, 1, <<>>)

RECURSIVE replace(_, _, _)
\* s.replace(old, new) for a one-character old
replace(s, old, new) ==
  IF s = <<>> THEN <<>>
  ELSE (IF Head(s) = old THEN new ELSE <<Head(s)>>) \o replace(Tail(s), old, new)

(***************************************************************************)
(* Python dict, in insertion order.                                        *)
(***************************************************************************)
has_key(d, k) == \E i \in 1..Len(d) : d[i].k = k

get(d, k) == d[CHOOSE i \in 1..Len(d) : d[i].k = k].v

\* d[k] = v, and d.update({k: v})
set_item(d, k, v) ==
  IF has_key(d, k)
  THEN [i \in 1..Len(d) |-> IF d[i].k = k THEN [k |-> k, v |-> v] ELSE d[i]]
  ELSE Append(d, [k |-> k, v |-> v])

(***************************************************************************)
(* int(value)                                                              *)
(***************************************************************************)
Digits == {"0", "1", "2", "3", "4", "5", "6", "7", "8", "9"}

DigitVal(c) ==
  CASE c = "0" -> 0 [] c = "1" -> 1 [] c = "2" -> 2 [] c = "3" -> 3
    [] c = "4" -> 4 [] c = "5" -> 5 [] c = "6" -> 6 [] c = "7" -> 7
    [] c = "8" -> 8 [] c = "9" -> 9

RECURSIVE lstrip(_)
lstrip(s) == IF s # <<>> /\ Head(s) = " " THEN lstrip(Tail(s)) ELSE s

RECURSIVE rstrip(_)
rstrip(s) ==
  IF s # <<>> /\ s[Len(s)] = " " THEN rstrip(SubSeq(s, 1, Len(s) - 1)) ELSE s

\* digits, single underscores allowed between two digits
int_body_ok(s) ==
  /\ s # <<>>
  /\ \A i \in 1..Len(s) : s[i] \in Digits \cup {"_"}
  /\ s[1] # "_" /\ s[Len(s)] # "_"
  /\ \A i \in 1..(Len(s) - 1) : ~(s[i] = "_" /\ s[i + 1] = "_")

RECURSIVE int_digits(_, _)
int_digits(s, acc) ==
  IF s = <<>> THEN acc
  ELSE IF Head(s) = "_" THEN int_digits(Tail(s), acc)
  ELSE int_digits(Tail(s), 10 * acc + DigitVal(Head(s)))

\* int(value): a str is parsed as a decimal literal (surrounding blanks, one
\* optional sign), ValueError otherwise; a list is a TypeError; an int is itself.
py_int(value) ==
  IF value.t = "int" THEN Ok(value.v)
  ELSE IF value.t = "list" THEN Raise("TypeError", <<>>, "int() argument")
  ELSE LET s == rstrip(lstrip(value.v))
           signed == s # <<>> /\ Head(s) \in {"+", "-"}
           body == IF signed THEN Tail(s) ELSE s
       IN IF ~int_body_ok(body) THEN Raise("ValueError", <<>>, "invalid literal")
          ELSE IF signed /\ Head(s) = "-" THEN Ok(0 - int_digits(body, 0))
          ELSE Ok(int_digits(body, 0))

(***************************************************************************)
(* current_app.config                                                      *)
(***************************************************************************)
Unset == [set |-> FALSE, v |-> 0]
UnsetFlag == [set |-> FALSE, v |-> TRUE]
Set(v) == [set |-> TRUE, v |-> v]

\* config.get(key, default)
config_get(entry, default) == IF entry.set THEN entry.v ELSE default

(***************************************************************************)
(* QueryStringManager._get_key_values                                      *)
(***************************************************************************)
RECURSIVE get_key_values_from(_, _, _, _)
get_key_values_from(name, q, i, results) ==
  IF i > Len(q) THEN Ok(results)
  ELSE LET key == q[i].k
           value == q[i].v
       IN IF ~startswith(key, name)
          THEN get_key_values_from(name, q, i + 1, results)
          ELSE IF index(key, "[") = -1 \/ index(key, "]") = -1
               THEN Raise("BadRequest", key, "Parse error")
               ELSE LET key_start == index(key, "[") + 1
                        key_end == index(key, "]")
                        item_key == slice(key, key_start, key_end)
                        item_value == IF contains(value, <<",">>)
                                      THEN ListV(split(value, <<",">>))
                                      ELSE StrV(value)
                    IN get_key_values_from(name, q, i + 1,
                                           set_item(results, item_key, item_value))

_get_key_values(name, q) == get_key_values_from(name, q, 1, <<>>)

(***************************************************************************)
(* QueryStringManager.pagination                                           *)
(***************************************************************************)
RECURSIVE pagination_coerce(_, _)
\* the loop of lines 107-113 over result.items(), from position i on
pagination_coerce(result, i) ==
  IF i > Len(result) THEN Ok(result)
  ELSE LET key == result[i].k
           n == py_int(result[i].v)
       IN IF key \notin {S_number, S_size}
          THEN Raise("BadRequest", S_page, "not a valid parameter of pagination")
          ELSE IF n.kind = "ValueError"
               THEN Raise("BadRequest", Bracket(S_page, key), "Parse error")
               ELSE IF n.kind # "ok" THEN n
               ELSE pagination_coerce(set_item(result, key, IntV(n.val)), i + 1)

\* the default size taken as the constant, whatever PAGE_SIZE is configured
pagination_policy_fixed_default(result, cfg) ==
  LET filled == IF has_key(result, S_size) THEN result
                ELSE Append(result, [k |-> S_size, v |-> IntV(DEFAULT_PAGE_SIZE)])
      size == get(filled, S_size).v
  IN IF config_get(cfg.ALLOW_DISABLE_PAGINATION, TRUE) = FALSE /\ size = 0
     THEN Raise("BadRequest", Bracket(S_page, S_size), "not allowed to disable pagination")
     ELSE IF cfg.MAX_PAGE_SIZE.set /\ size > cfg.MAX_PAGE_SIZE.v
          THEN Raise("BadRequest", Bracket(S_page, S_size), "Maximum page size")
          ELSE Ok(filled)

pagination_policy(result, cfg) ==
  LET filled == IF has_key(result, S_size) THEN result
                ELSE Append(result, [k |-> S_size,
                                     v |-> IntV(config_get(cfg.PAGE_SIZE, DEFAULT_PAGE_SIZE))])
      size == get(filled, S_size).v
  IN IF config_get(cfg.ALLOW_DISABLE_PAGINATION, TRUE) = FALSE /\ size = 0
     THEN Raise("BadRequest", Bracket(S_page, S_size), "not allowed to disable pagination")
     ELSE IF cfg.MAX_PAGE_SIZE.set /\ size > cfg.MAX_PAGE_SIZE.v
          THEN Raise("BadRequest", Bracket(S_page, S_size), "Maximum page size")
          ELSE Ok(filled)

pagination_of(q, cfg) ==
  LET group == _get_key_values(S_page, q)
  IN IF group.kind # "ok" THEN group
     ELSE LET coerced == pagination_coerce(group.val, 1)
          IN IF coerced.kind # "ok" THEN coerced
             ELSE pagination_policy(coerced.val, cfg)

(***************************************************************************)
(* json.loads: JSON text to a Python value.  Arrays, objects with string   *)
(* keys, strings without escapes, integers and the three literals, with    *)
(* blanks between tokens; anything else is a JSONDecodeError, which is a   *)
(* ValueError.  A parse step returns [ok, val, next].                      *)
(***************************************************************************)
JArr(l) == [t |-> "list", v |-> l]
JObj(d) == [t |-> "dict", v |-> d]
JStr(s) == [t |-> "str", v |-> s]
JNum(n) == [t |-> "int", v |-> n]
JBool(b) == [t |-> "bool", v |-> b]
JNull == [t |-> "NoneType", v |-> <<>>]

JFail == [ok |-> FALSE, val |-> JNull, next |-> 0]
JDone(v, i) == [ok |-> TRUE, val |-> v, next |-> i]

RECURSIVE skip_ws(_, _)
skip_ws(s, i) == IF i <= Len(s) /\ s[i] = " " THEN skip_ws(s, i + 1) ELSE i

at(s, i, c) == i <= Len(s) /\ s[i] = c

json_literal(s, i, word, v) ==
  IF i + Len(word) - 1 <= Len(s) /\ SubSeq(s, i, i + Len(word) - 1) = word
  THEN JDone(v, i + Len(word))
  ELSE JFail

RECURSIVE digits_end(_, _)
\* the position after the run of digits that starts at i
digits_end(s, i) == IF i <= Len(s) /\ s[i] \in Digits THEN digits_end(s, i + 1) ELSE i

\* -?(0|[1-9][0-9]*)
json_number(s, i) ==
  LET neg == at(s, i, "-")
      b == IF neg THEN i + 1 ELSE i
      e == IF at(s, b, "0") THEN b + 1 ELSE digits_end(s, b)
  IN IF e = b THEN JFail
     ELSE LET n == int_digits(SubSeq(s, b, e - 1), 0)
          IN JDone(JNum(IF neg THEN 0 - n ELSE n), e)

\* the string whose opening quote is at i
json_string(s, i) ==
  IF \E j \in (i + 1)..Len(s) : s[j] = "\""
  THEN LET j == CHOOSE j \in (i + 1)..Len(s) :
                  s[j] = "\"" /\ \A m \in (i + 1)..(j - 1) : s[m] # "\""
       IN JDone(JStr(SubSeq(s, i + 1, j - 1)), j + 1)
  ELSE JFail

RECURSIVE json_value(_, _)
RECURSIVE json_array_items(_, _, _)
RECURSIVE json_object_items(_, _, _)

json_value(s, i) ==
  IF i > Len(s) THEN JFail
  ELSE CASE s[i] = "\"" -> json_string(s, i)
         [] s[i] = "[" ->
              LET j == skip_ws(s, i + 1)
              IN IF at(s, j, "]") THEN JDone(JArr(<<>>), j + 1)
                 ELSE json_array_items(s, j, <<>>)
         [] s[i] = "{" ->
              LET j == skip_ws(s, i + 1)
              IN IF at(s, j, "}") THEN JDone(JObj(<<>>), j + 1)
                 ELSE json_object_items(s, j, <<>>)
         [] s[i] = "n" -> json_literal(s, i, <<"n", "u", "l", "l">>, JNull)
         [] s[i] = "t" -> json_literal(s, i, <<"t", "r", "u", "e">>, JBool(TRUE))
         [] s[i] = "f" -> json_literal(s, i, <<"f", "a", "l", "s", "e">>, JBool(FALSE))
         [] s[i] = "-" \/ s[i] \in Digits -> json_number(s, i)
         [] OTHER -> JFail

\* the elements from position i on, after "[" or after a ","
json_array_items(s, i, acc) ==
  LET v == json_value(s, i)
  IN IF ~v.ok THEN JFail
     ELSE LET j == skip_ws(s, v.next)
              items == Append(acc, v.val)
          IN IF at(s, j, ",") THEN json_array_items(s, skip_ws(s, j + 1), items)
             ELSE IF at(s, j, "]") THEN JDone(JArr(items), j + 1)
             ELSE JFail

\* the "key": value pairs from position i on, after "{" or after a ","
json_object_items(s, i, acc) ==
  IF ~at(s, i, "\"") THEN JFail
  ELSE LET k == json_string(s, i)
       IN IF ~k.ok THEN JFail
          ELSE LET c == skip_ws(s, k.next)
               IN IF ~at(s, c, ":") THEN JFail
                  ELSE LET v == json_value(s, skip_ws(s, c + 1))
                       IN IF ~v.ok THEN JFail
                          ELSE LET j == skip_ws(s, v.next)
                                   items == set_item(acc, k.val.v, v.val)
                               IN IF at(s, j, ",")
                                  THEN json_object_items(s, skip_ws(s, j + 1), items)
                                  ELSE IF at(s, j, "}") THEN JDone(JObj(items), j + 1)
                                  ELSE JFail

json_loads(s) ==
  LET v == json_value(s, skip_ws(s, 1))
  IN IF v.ok /\ skip_ws(s, v.next) = Len(s) + 1 THEN Ok(v.val)
     ELSE Raise("ValueError", <<>>, "JSONDecodeError")

\* list.extend(value): the elements of a list, the keys of a dict, the
\* characters of a str; any other value is not iterable.
list_extend(results, value) ==
  CASE value.t = "list" -> Ok(results \o value.v)
    [] value.t = "dict" ->
         Ok(results \o [i \in 1..Len(value.v) |-> JStr(value.v[i].k)])
    [] value.t = "str" ->
         Ok(results \o [i \in 1..Len(value.v) |-> JStr(<<value.v[i]>>)])
    [] OTHER -> Raise("TypeError", <<>>, "object is not iterable")

(***************************************************************************)
(* QueryStringManager._simple_filters and QueryStringManager.filters       *)
(***************************************************************************)
S_name == <<"n", "a", "m", "e">>
S_op == <<"o", "p">>
S_eq == <<"e", "q">>
S_val == <<"v", "a", "l">>

group_value(v) ==
  IF v.t = "list" THEN JArr([i \in 1..Len(v.v) |-> JStr(v.v[i])]) ELSE v

_simple_filters(dict_) ==
  [i \in 1..Len(dict_) |->
     JObj(<<[k |-> S_name, v |-> JStr(dict_[i].k)],
            [k |-> S_op, v |-> JStr(S_eq)],
            [k |-> S_val, v |-> group_value(dict_[i].v)]>>)]

filters_json(q) ==
  IF ~has_key(q, S_filter) THEN Ok(<<>>)
  ELSE LET parsed == json_loads(get(q, S_filter))
       IN IF parsed.kind # "ok" THEN Raise("InvalidFilters", <<>>, "Parse error")
          ELSE LET ext == list_extend(<<>>, parsed.val)
               IN IF ext.kind # "ok" THEN Raise("InvalidFilters", <<>>, "Parse error")
                  ELSE ext

filters_of(q) ==
  LET first == filters_json(q)
  IN IF first.kind # "ok" THEN first
     ELSE LET group == _get_key_values(S_filterBr, q)
          IN IF group.kind # "ok" THEN group
             ELSE IF group.val # <<>>
                  THEN Ok(first.val \o _simple_filters(group.val))
                  ELSE first

(***************************************************************************)
(* The schema and the registry of flask_combo_jsonapi.schema, and          *)
(* SPLIT_REL of flask_combo_jsonapi.utils.                                 *)
(***************************************************************************)
SPLIT_REL == <<".">>

\* schema._declared_fields
declared_fields(sch) == sch.declared

get_relationships(sch) == sch.relationships

\* the name of the model attribute behind a declared field
get_model_field(sch, field) == sch.attribute[field]

SchemaA ==
  [name |-> "SchemaA",
   declared |-> {<<"a">>, <<"a", "b">>, <<"b">>},
   relationships |-> {<<"b">>},
   attribute |-> (<<"a">> :> <<"a">>) @@ (<<"a", "b">> :> <<"x">>) @@ (<<"b">> :> <<"b">>)]

SchemaB ==
  [name |-> "SchemaB",
   declared |-> {<<"a">>, <<"a", "-", "b">>},
   relationships |-> {},
   attribute |-> (<<"a">> :> <<"y">>) @@ (<<"a", "-", "b">> :> <<"a", "_", "b">>)]

Schemas == {SchemaA, SchemaB}

Registry == (<<"a">> :> SchemaA) @@ (<<"b">> :> SchemaB)

get_schema_from_type(type) ==
  IF type \in DOMAIN Registry THEN Ok(Registry[type])
  ELSE Raise("Exception", type, "Couldn't find schema for type")

(***************************************************************************)
(* QueryStringManager.fields                                               *)
(***************************************************************************)
fields_normalize(result) ==
  [i \in 1..Len(result) |->
     [k |-> result[i].k,
      v |-> IF result[i].v.t = "list" THEN result[i].v ELSE ListV(<<result[i].v.v>>)]]

RECURSIVE fields_validate(_, _)
fields_validate(result, i) ==
  IF i > Len(result) THEN Ok(result)
  ELSE LET sch == get_schema_from_type(result[i].k)
           value == result[i].v.v
       IN IF sch.kind # "ok" THEN sch
          ELSE IF \E j \in 1..Len(value) : value[j] \notin declared_fields(sch.val)
               THEN Raise("InvalidField",
                          value[CHOOSE j \in 1..Len(value) :
                                  /\ value[j] \notin declared_fields(sch.val)
                                  /\ \A m \in 1..(j - 1) :
                                       value[m] \in declared_fields(sch.val)],
                          "has no attribute")
               ELSE fields_validate(result, i + 1)

fields_of(q) ==
  LET group == _get_key_values(S_fields, q)
  IN IF group.kind # "ok" THEN group
     ELSE fields_validate(fields_normalize(group.val), 1)

(***************************************************************************)
(* QueryStringManager.sorting                                              *)
(***************************************************************************)
\* line 170: the field name of a token
sort_field_name(sort_field) == replace(sort_field, "-", <<>>)

\* line 177
sort_order(sort_field) == IF startswith(sort_field, <<"-">>) THEN "desc" ELSE "asc"

RECURSIVE sorting_loop(_, _, _, _)
sorting_loop(tokens, sch, i, sorting_results) ==
  IF i > Len(tokens) THEN Ok(sorting_results)
  ELSE LET sort_field == tokens[i]
           field == sort_field_name(sort_field)
           order == sort_order(sort_field)
       IN IF ~contains(field, SPLIT_REL)
          THEN IF field \notin declared_fields(sch)
               THEN Raise("InvalidSort", field, "has no attribute")
               ELSE IF field \in get_relationships(sch)
                    THEN Raise("InvalidSort", field, "relationship field")
                    ELSE sorting_loop(tokens, sch, i + 1,
                           Append(sorting_results,
                                  [field |-> get_model_field(sch, field), order |-> order]))
          ELSE sorting_loop(tokens, sch, i + 1,
                 Append(sorting_results, [field |-> field, order |-> order]))

sorting_of(q, sch) ==
  IF has_key(q, S_sort) /\ get(q, S_sort) # <<>>
  THEN sorting_loop(split(get(q, S_sort), <<",">>), sch, 1, <<>>)
  ELSE Ok(<<>>)

(***************************************************************************)
(* QueryStringManager.include                                              *)
(***************************************************************************)
\* lines 192-193: the loop variable ranges over the elements of include_param
include_too_deep(include_param, max) ==
  \E i \in 1..Len(include_param) : Len(split(<<include_param[i]>>, SPLIT_REL)) > max

include_of(q, cfg) ==
  LET include_param == IF has_key(q, S_include) THEN get(q, S_include) ELSE <<>>
  IN IF cfg.MAX_INCLUDE_DEPTH.set /\ include_too_deep(include_param, cfg.MAX_INCLUDE_DEPTH.v)
     THEN Raise("InvalidInclude", <<>>, "more than MAX_INCLUDE_DEPTH relationships")
     ELSE IF include_param # <<>> THEN Ok(split(include_param, <<",">>)) ELSE Ok(<<>>)

(***************************************************************************)
(* QueryStringManager.querystring                                          *)
(***************************************************************************)
RECURSIVE querystring_from(_, _, _)
querystring_from(q, i, acc) ==
  IF i > Len(q) THEN Ok(acc)
  ELSE IF startswith_any(q[i].k, MANAGED_KEYS)
       THEN querystring_from(q, i + 1, Append(acc, q[i]))
       ELSE LET group == _get_key_values(S_filterBr, q)
            IN IF group.kind # "ok" THEN group
               ELSE IF group.val # <<>>
                    THEN querystring_from(q, i + 1, Append(acc, q[i]))
                    ELSE querystring_from(q, i + 1, acc)

querystring_of(q) == querystring_from(q, 1, <<>>)

(***************************************************************************)
(* The manager: one action per accessor.                                   *)
(***************************************************************************)
Accessors == {"filters", "pagination", "fields", "sorting", "include", "querystring"}

Called(a, out) ==
  /\ res' = [res EXCEPT ![a] = out]
  /\ again' = (res[a].kind # "none")
  /\ UNCHANGED <<qs, config, schema, kv>>

filters == Called("filters", filters_of(qs))

\* the page parameters popped from self.qs as they are read
pagination_consuming ==
  /\ res' = [res EXCEPT !["pagination"] = pagination_of(qs, config)]
  /\ again' = (res["pagination"].kind # "none")
  /\ qs' = SelectSeq(qs, LAMBDA e : ~startswith(e.k, S_page))
  /\ UNCHANGED <<config, schema, kv>>

pagination == Called("pagination", pagination_of(qs, config))

fields == Called("fields", fields_of(qs))

sorting == Called("sorting", sorting_of(qs, schema))

include == Called("include", include_of(qs, config))

querystring == Called("querystring", querystring_of(qs))

GroupNames == {S_page, S_fields, S_filterBr}

get_key_values ==
  \E name \in GroupNames :
    /\ kv' = [name |-> name, out |-> _get_key_values(name, qs)]
    /\ again' = FALSE
    /\ UNCHANGED <<qs, config, schema, res>>

(***************************************************************************)
(* Inputs.                                                                 *)
(***************************************************************************)
StrsUpTo(A, n) == UNION {[1..m -> A] : m \in 0..n}

Entry(k, v) == [k |-> k, v |-> v]

\* the querystrings of at most n entries of E, no key twice
QsOver(E, n) ==
  {q \in UNION {[1..m -> E] : m \in 0..n} :
     \A i, j \in 1..Len(q) : i # j => q[i].k # q[j].k}

NoConfig ==
  [PAGE_SIZE |-> Unset, ALLOW_DISABLE_PAGINATION |-> UnsetFlag,
   MAX_PAGE_SIZE |-> Unset, MAX_INCLUDE_DEPTH |-> Unset]

Fresh ==
  /\ res = [a \in Accessors |-> None]
  /\ kv = [name |-> <<>>, out |-> None]
  /\ again = FALSE

Next ==
  \/ filters
  \/ pagination
  \/ fields
  \/ sorting
  \/ include
  \/ querystring

\* every accessor, on querystrings that mix the parameters
MixedEntries ==
  { Entry(S_filter, <<"[", "1", "]">>),
    Entry(Bracket(S_filter, <<"a">>), <<"1">>),
    Entry(Bracket(S_page, S_size), <<"2">>),
    Entry(Bracket(S_page, S_number), <<"1", ",", "2">>),
    Entry(Bracket(S_fields, <<"a">>), <<"a", ",", "a", "b">>),
    Entry(S_sort, <<"-", "a", ",", "a", "b">>),
    Entry(S_include, <<"a", ".", "b">>),
    Entry(<<"f", "o", "o">>, <<"1">>) }

MixedConfigs ==
  { NoConfig,
    [PAGE_SIZE |-> Set(1), ALLOW_DISABLE_PAGINATION |-> Set(FALSE),
     MAX_PAGE_SIZE |-> Set(MaxCfg), MAX_INCLUDE_DEPTH |-> Set(MaxDepth)] }

Init ==
  /\ qs \in QsOver(MixedEntries, MaxEntries)
  /\ config \in MixedConfigs
  /\ schema = SchemaA
  /\ Fresh

Spec == Init /\ [][Next]_vars


(***************************************************************************)
(* pagination alone, on page[...] parameters and every configuration of    *)
(* the page size.                                                          *)
(***************************************************************************)
PageKeys == {Bracket(S_page, S_size), Bracket(S_page, S_number), Bracket(S_page, <<"x">>)}

PageChars == {"0", "1", ",", "x", "-"}

PageEntries(n) == {Entry(k, v) : k \in PageKeys, v \in StrsUpTo(PageChars, n)}

PageQs == QsOver(PageEntries(MaxPageValLen), 1) \cup QsOver(PageEntries(1), 2)

PageConfigs ==
  [PAGE_SIZE : {Unset} \cup {Set(n) : n \in 0..MaxCfg},
   ALLOW_DISABLE_PAGINATION : {UnsetFlag, Set(TRUE), Set(FALSE)},
   MAX_PAGE_SIZE : {Unset} \cup {Set(n) : n \in 0..MaxCfg},
   MAX_INCLUDE_DEPTH : {Unset}]

InitPage ==
  /\ qs \in PageQs
  /\ config \in PageConfigs
  /\ schema = SchemaA
  /\ Fresh

NextPage == pagination

SpecPage == InitPage /\ [][NextPage]_vars

(***************************************************************************)
(* sorting alone, on every short sort value.                               *)
(***************************************************************************)
SortChars == {"a", "b", "-", ",", "."}

SortQs == {<<>>} \cup {<<Entry(S_sort, v)>> : v \in StrsUpTo(SortChars, MaxSortLen)}

InitSort ==
  /\ qs \in SortQs
  /\ config = NoConfig
  /\ schema \in Schemas
  /\ Fresh

NextSort == sorting

SpecSort == InitSort /\ [][NextSort]_vars

(***************************************************************************)
(* include alone, on every short include value and every depth limit.      *)
(***************************************************************************)
IncludeChars == {"a", ".", ","}

IncludeQs == {<<>>} \cup {<<Entry(S_include, v)>> : v \in StrsUpTo(IncludeChars, MaxIncludeLen)}

IncludeConfigs ==
  {[NoConfig EXCEPT !.MAX_INCLUDE_DEPTH = d] : d \in {Unset} \cup {Set(n) : n \in 0..MaxDepth}}

InitInclude ==
  /\ qs \in IncludeQs
  /\ config \in IncludeConfigs
  /\ schema = SchemaA
  /\ Fresh

NextInclude == include

SpecInclude == InitInclude /\ [][NextInclude]_vars

(***************************************************************************)
(* filters alone, on short texts over the JSON punctuation and on some     *)
(* longer JSON texts, with and without a filter[a] parameter.              *)
(***************************************************************************)
JsonChars == {"[", "]", "{", "}", "\"", "1", ","}

JsonSamples ==
  { <<"n", "u", "l", "l">>, <<"t", "r", "u", "e">>, <<"f", "a", "l", "s", "e">>,
    <<"{", "\"", "a", "\"", ":", "1", "}">>,
    <<"[", "{", "\"", "a", "\"", ":", "1", "}", "]">>,
    <<"\"", "a", "b", "\"">>, <<"[", "1", ",", " ", "1", "]">>, <<"-", "1">> }

FilterEntries ==
  {Entry(S_filter, v) : v \in StrsUpTo(JsonChars, MaxJsonLen) \cup JsonSamples}
    \cup {Entry(Bracket(S_filter, <<"a">>), <<"1">>)}

InitFilter ==
  /\ qs \in QsOver(FilterEntries, 2)
  /\ config = NoConfig
  /\ schema = SchemaA
  /\ Fresh

NextFilter == filters

SpecFilter == InitFilter /\ [][NextFilter]_vars

(***************************************************************************)
(* The extractor and the accessors built on it, on one key of every        *)
(* bracket shape.                                                          *)
(***************************************************************************)
KeyPrefixes == {S_page, S_fields, S_filter, <<"f", "o", "o">>}

KeyShapes == {p \o t : p \in KeyPrefixes, t \in StrsUpTo({"[", "]", "a"}, MaxSuffixLen)}

KeyQs == {<<>>} \cup {<<Entry(k, v)>> : k \in KeyShapes, v \in {<<"1">>, <<"1", ",", "2">>}}

InitKeys ==
  /\ qs \in KeyQs
  /\ config = NoConfig
  /\ schema = SchemaA
  /\ Fresh

NextKeys ==
  \/ get_key_values
  \/ pagination
  \/ fields
  \/ filters

SpecKeys == InitKeys /\ [][NextKeys]_vars

(***************************************************************************)
(* querystring alone, on managed and unmanaged keys.                       *)
(***************************************************************************)
ManagedPrefixes ==
  {MANAGED_KEYS[i] : i \in 1..Len(MANAGED_KEYS)} \cup {<<"f", "o", "o">>, <<"x", "q">>}

ManagedSuffixes == {<<>>, <<"[", "a", "]">>, <<"[", "a">>}

ManagedEntries == {Entry(p \o t, <<"1">>) : p \in ManagedPrefixes, t \in ManagedSuffixes}

InitManaged ==
  /\ qs \in QsOver(ManagedEntries, 2)
  /\ config = NoConfig
  /\ schema = SchemaA
  /\ Fresh

NextManaged == querystring

SpecManaged == InitManaged /\ [][NextManaged]_vars

(***************************************************************************)
(* Properties.                                                             *)
(***************************************************************************)
done(a) == res[a].kind # "none"

\* C1: querystring returns exactly the entries whose key starts with one of
\* the MANAGED_KEYS names (a filter[...] key does); an entry whose key starts
\* with none of them is never returned, whatever the other keys are.
C1_OnlyManagedKeys ==
  res["querystring"].kind = "ok" =>
    res["querystring"].val =
      SelectSeq(qs, LAMBDA e : startswith_any(e.k, MANAGED_KEYS))

\* the segments of a path
Depth(path) == Len(split(path, SPLIT_REL))

\* C2: with MAX_INCLUDE_DEPTH configured, include fails with InvalidInclude
\* exactly when one of the comma-split paths has more segments than the
\* maximum, and otherwise returns the comma-split paths.
C2_DepthOfEachPath ==
  (done("include") /\ config.MAX_INCLUDE_DEPTH.set
     /\ has_key(qs, S_include) /\ get(qs, S_include) # <<>>) =>
    LET paths == split(get(qs, S_include), <<",">>)
        deep == \E i \in 1..Len(paths) : Depth(paths[i]) > config.MAX_INCLUDE_DEPTH.v
    IN IF deep THEN res["include"].kind = "InvalidInclude"
       ELSE res["include"].kind = "ok" /\ res["include"].val = paths

\* C3: filters fails with InvalidFilters whenever the filter value is not
\* valid JSON or is valid JSON that is not an array.
C3_NonArrayRejected ==
  (done("filters") /\ has_key(qs, S_filter)) =>
    LET parsed == json_loads(get(qs, S_filter))
    IN (parsed.kind # "ok" \/ parsed.val.t # "list") =>
         res["filters"].kind = "InvalidFilters"

\* a page value int() does not accept, as a whole or because the extractor
\* made a list of it
Uncoercible(v) == contains(v, <<",">>) \/ py_int(StrV(v)).kind # "ok"

PageParams == {Bracket(S_page, S_number), Bracket(S_page, S_size)}

\* C4: when a page[number] or page[size] value cannot be coerced to an
\* integer, a value with a comma included, pagination fails with BadRequest
\* naming page[<key>] (or page, for an unknown sub-key met first), and no
\* other kind of error escapes pagination.
C4_CoercionFailureIsBadRequest ==
  done("pagination") =>
    /\ res["pagination"].kind \in {"ok", "BadRequest"}
    /\ (\E i \in 1..Len(qs) : qs[i].k \in PageParams /\ Uncoercible(qs[i].v)) =>
         /\ res["pagination"].kind = "BadRequest"
         /\ \/ res["pagination"].param = S_page
            \/ \E i \in 1..Len(qs) :
                 /\ qs[i].k \in PageParams /\ Uncoercible(qs[i].v)
                 /\ res["pagination"].param = qs[i].k

\* a token with one leading "-" removed, if it has one
StripLeadingHyphen(token) == IF startswith(token, <<"-">>) THEN Tail(token) ELSE token

SortTokens == split(get(qs, S_sort), <<",">>)

SortGiven == has_key(qs, S_sort) /\ get(qs, S_sort) # <<>>

\* C5: the field of every directive is the token without its one leading
\* "-", if any, and with every other hyphen kept (alias-resolved when it is
\* not a relationship path); the order is desc exactly for a leading "-".
C5_OneLeadingHyphen ==
  (res["sorting"].kind = "ok" /\ SortGiven) =>
    /\ Len(res["sorting"].val) = Len(SortTokens)
    /\ \A i \in 1..Len(SortTokens) :
         LET name == StripLeadingHyphen(SortTokens[i])
             d == res["sorting"].val[i]
         IN /\ d.order = (IF startswith(SortTokens[i], <<"-">>) THEN "desc" ELSE "asc")
            /\ IF contains(name, SPLIT_REL) THEN d.field = name
               ELSE /\ name \in declared_fields(schema)
                    /\ d.field = get_model_field(schema, name)

\* the page parameters are a well-formed page[number] at most
NoPageSize ==
  \A i \in 1..Len(qs) :
    startswith(qs[i].k, S_page) =>
      qs[i].k = Bracket(S_page, S_number) /\ ~Uncoercible(qs[i].v)

DefaultSize == config_get(config.PAGE_SIZE, DEFAULT_PAGE_SIZE)

DefaultRefused ==
  \/ config_get(config.ALLOW_DISABLE_PAGINATION, TRUE) = FALSE /\ DefaultSize = 0
  \/ config.MAX_PAGE_SIZE.set /\ DefaultSize > config.MAX_PAGE_SIZE.v

\* C6, as claimed: without a page[size] key, pagination returns the default
\* size and raises no error, whatever the configuration.
C6_DefaultSizeNeverFails ==
  (done("pagination") /\ NoPageSize) =>
    /\ res["pagination"].kind = "ok"
    /\ get(res["pagination"].val, S_size) = IntV(DefaultSize)

\* C6, amended: without a page[size] key, pagination returns the default
\* size and raises no error, unless the default is 0 while disabling
\* pagination is forbidden or exceeds the configured MAX_PAGE_SIZE: then it
\* fails with BadRequest naming page[size].
C6_DefaultSizeUnlessRefused ==
  (done("pagination") /\ NoPageSize) =>
    IF DefaultRefused
    THEN /\ res["pagination"].kind = "BadRequest"
         /\ res["pagination"].param = Bracket(S_page, S_size)
    ELSE /\ res["pagination"].kind = "ok"
         /\ has_key(res["pagination"].val, S_size)
         /\ get(res["pagination"].val, S_size) = IntV(DefaultSize)

C6_Witness ==
  /\ res["pagination"].kind = "ok"
  /\ NoPageSize
  /\ has_key(qs, Bracket(S_page, S_number))
  /\ config.PAGE_SIZE.set /\ config.MAX_PAGE_SIZE.set
  /\ get(res["pagination"].val, S_size) = IntV(config.PAGE_SIZE.v)

Sortable(sch) == declared_fields(sch) \ get_relationships(sch)

\* C7: a successful sorting has one directive per token, in token order; a
\* directive whose field is not a relationship path carries the storage name
\* of a declared field that is not a relationship; and a token naming an
\* undeclared field or a relationship makes sorting fail with InvalidSort.
C7_DirectivesFollowTokens ==
  (done("sorting") /\ SortGiven) =>
    /\ res["sorting"].kind = "ok" =>
         /\ Len(res["sorting"].val) = Len(SortTokens)
         /\ \A i \in 1..Len(SortTokens) :
              LET d == res["sorting"].val[i]
              IN /\ d.order = (IF startswith(SortTokens[i], <<"-">>) THEN "desc" ELSE "asc")
                 /\ ~contains(StripLeadingHyphen(SortTokens[i]), SPLIT_REL) =>
                      \E f \in Sortable(schema) : d.field = get_model_field(schema, f)
    /\ (\E i \in 1..Len(SortTokens) :
          LET name == StripLeadingHyphen(SortTokens[i])
          IN ~contains(name, SPLIT_REL) /\ name \notin Sortable(schema)) =>
         res["sorting"].kind = "InvalidSort"

\* C8: a directive pagination returns has its keys among number and size,
\* has size, holds integers only, has size # 0 when disabling pagination is
\* forbidden and size <= MAX_PAGE_SIZE when that is configured; a querystring
\* that gives no such directive fails with BadRequest.
C8_DirectiveOrBadRequest ==
  done("pagination") =>
    IF res["pagination"].kind = "ok"
    THEN LET d == res["pagination"].val
         IN /\ \A i \in 1..Len(d) : d[i].k \in {S_number, S_size} /\ d[i].v.t = "int"
            /\ has_key(d, S_size)
            /\ config_get(config.ALLOW_DISABLE_PAGINATION, TRUE) = FALSE =>
                 get(d, S_size).v # 0
            /\ config.MAX_PAGE_SIZE.set => get(d, S_size).v <= config.MAX_PAGE_SIZE.v
    ELSE res["pagination"].kind = "BadRequest"

ClosingAfterOpening(key) ==
  LET open == index(key, "[") + 1
  IN IF open = 0 \/ ~\E j \in (open + 1)..Len(key) : key[j] = "]" THEN 0
     ELSE CHOOSE j \in (open + 1)..Len(key) :
            key[j] = "]" /\ \A m \in (open + 1)..(j - 1) : key[m] # "]"

\* the substring between the first "[" and the first "]" after it
SubKey(key) == SubSeq(key, index(key, "[") + 2, ClosingAfterOpening(key) - 1)

\* C10: for every key that starts with the prefix, the extractor either
\* yields the sub-key between the first "[" and the first "]" after it, or
\* fails with BadRequest naming a key without such a pair of brackets; such a
\* key is neither skipped nor given an entry.
C10_SubKeyOrBadRequest ==
  kv.out.kind # "none" =>
    \A i \in 1..Len(qs) :
      startswith(qs[i].k, kv.name) =>
        IF ClosingAfterOpening(qs[i].k) = 0
        THEN kv.out.kind = "BadRequest"
        ELSE \/ kv.out.kind = "ok" /\ has_key(kv.out.val, SubKey(qs[i].k))
             \/ /\ kv.out.kind = "BadRequest"
                /\ \E j \in 1..Len(qs) :
                     /\ startswith(qs[j].k, kv.name)
                     /\ ClosingAfterOpening(qs[j].k) = 0
                     /\ kv.out.param = qs[j].k

====
